---- MODULE Spec2Model ----
(***************************************************************************)
(* Clip planning, prompt propagation and mask reassembly pipeline of       *)
(* Endoscapes2023_Pipeline/inference.py, for one video of the dataset.     *)
(*                                                                         *)
(* A mask is the set of its foreground pixels on a one-row image of Width  *)
(* pixels; a Python dict is a sequence of entries in insertion order with  *)
(* unique keys; None is the sentinel None for integers and NonePrompt for  *)
(* a PromptInfo.  The inert strings video_id and path of a PromptInfo are  *)
(* left out.  An uncaught Python exception ends the run: pc = "error" and  *)
(* err names the exception.                                                *)
(***************************************************************************)
EXTENDS Integers, Sequences, FiniteSets, TLC

\* ---------------------------------------------------------------- bounds
MaxFrames == 3
NumCat == 2
Width == 3

\* ------------------------------------------------------------- constants
None == 0 - 1
NonePrompt == [prompt_objs |-> <<>>, frame_idx |-> None, prompt_type |-> "None"]
PromptTypes == {"points", "bbox", "mask"}
Pixels == 1..Width
Cats == 0..(NumCat - 1)

Min(S) == CHOOSE x \in S : \A y \in S : x <= y
Max(S) == CHOOSE x \in S : \A y \in S : x >= y
MinOf(a, b) == IF a <= b THEN a ELSE b

\* ------------------------------------------------------ geometry utilities
\* The run of foreground pixels that starts at pixel p.
RECURSIVE RunFrom(_, _)
RunFrom(mask, p) ==
    IF p \in mask THEN {p} \cup RunFrom(mask, p + 1) ELSE {}

\* mask_to_masks: the connected components of a mask, left to right.
RECURSIVE mask_to_masks(_)
mask_to_masks(mask) ==
    IF mask = {} THEN <<>>
    ELSE LET run == RunFrom(mask, Min(mask))
         IN  <<run>> \o mask_to_masks(mask \ run)

mask_to_bbox(mask) == <<Min(mask), Max(mask)>>

mask_to_points(mask) == <<Min(mask)>>

\* ------------------------------------------------------- run-length masks
\* maskUtils.encode: the lengths of the alternating runs of a mask, background
\* run first (possibly of length 0), over pixels p..Width.
RECURSIVE RleRuns(_, _, _)
RleRuns(mask, p, fg) ==
    IF p > Width THEN <<>>
    ELSE LET same == {q \in p..Width : \A r \in p..q : (r \in mask) = fg}
             len == Cardinality(same)
         IN  <<len>> \o RleRuns(mask, p + len, ~fg)

RleEncode(mask) == RleRuns(mask, 1, FALSE)

\* maskUtils.decode: the foreground pixels of a run-length encoded mask.
RECURSIVE RleSum(_, _)
RleSum(counts, k) == IF k = 0 THEN 0 ELSE counts[k] + RleSum(counts, k - 1)

RleDecode(counts) ==
    {p \in Pixels : \E k \in 1..Len(counts) :
        /\ k % 2 = 0
        /\ RleSum(counts, k - 1) < p
        /\ p <= RleSum(counts, k)}

\* -------------------------------------------------- object identity encoder
EncodeObjId(count, cat) == count * (NumCat + 1) + cat

\* DecodeObjId with the modulus one short.
DecodeObjIdShortModulus(key) == key % NumCat

DecodeObjId(key) == key % (NumCat + 1)

MakeObj(mask, obj_id) ==
    [mask |-> mask, bbox |-> mask_to_bbox(mask),
     points |-> mask_to_points(mask), obj_id |-> obj_id]

\* The instances of an annotation list in emission order: each connected
\* component of each annotation's decoded mask, with the annotation's category.
RECURSIVE Instances(_)
Instances(anns) ==
    IF anns = <<>> THEN <<>>
    ELSE LET ms == mask_to_masks(RleDecode(Head(anns).segmentation))
         IN  [i \in 1..Len(ms) |->
                 [mask |-> ms[i], category_id |-> Head(anns).category_id]]
             \o Instances(Tail(anns))

\* get_each_obj with the increment of OBJ_COUNT lost.
GetEachObjNoIncrement(anns, count) ==
    LET inst == Instances(anns)
    IN  [objs |-> [i \in 1..Len(inst) |->
                      MakeObj(inst[i].mask, EncodeObjId(count, inst[i].category_id))],
         count |-> count]

\* get_each_obj: one object per instance, OBJ_COUNT incremented per object.
GetEachObj(anns, count) ==
    LET inst == Instances(anns)
    IN  [objs |-> [i \in 1..Len(inst) |->
                      MakeObj(inst[i].mask,
                              EncodeObjId(count + i - 1, inst[i].category_id))],
         count |-> count + Len(inst)]

\* The log of one get_each_obj call: each id issued, with the category of the
\* annotation the instance was cut from.
IssueLog(anns, objs) ==
    [i \in 1..Len(objs) |->
        [obj_id |-> objs[i].obj_id,
         category_id |-> Instances(anns)[i].category_id]]

\* get_obj_from_masks: one object per connected component of every non-empty
\* mask of a frame's object map, under the map's object id.
RECURSIVE GetObjFromMasks(_)
GetObjFromMasks(seg) ==
    IF seg = <<>> THEN <<>>
    ELSE LET e == Head(seg)
             ms == mask_to_masks(e.mask)
         IN  (IF e.mask = {} THEN <<>>
              ELSE [i \in 1..Len(ms) |-> MakeObj(ms[i], e.obj_id)])
             \o GetObjFromMasks(Tail(seg))


\* ------------------------------------------------------------------ inputs
Ann(category_id, mask) ==
    [category_id |-> category_id, segmentation |-> RleEncode(mask)]

\* The annotation lists a keyframe can carry: none; one instance of the first
\* category; two instances of the first category and one of the last.
AnnLists ==
    { <<>>,
      <<Ann(0, {1})>>,
      <<Ann(0, {1, Width}), Ann(NumCat - 1, {1})>> }

\* The orders in which the dataset can list the n images of a video: by
\* ascending ordinal, and with the first two listed the other way round.
ListOrders(n) ==
    {[i \in 1..n |-> i - 1]}
        \cup (IF n < 2 THEN {}
              ELSE {[i \in 1..n |-> IF i = 1 THEN 1 ELSE IF i = 2 THEN 0 ELSE i - 1]})

\* The image records of one video in the order get_imgs returns them, which is
\* the order of the dataset file: get_dicts_by_field_value filters, it does not
\* sort.  Every choice of keyframes is listed by ascending ordinal; the other
\* listing is taken for the video whose images are all keyframes.
FrameLists(n) ==
    UNION {{[i \in 1..n |-> [id |-> o[i], order_in_video |-> o[i],
                             is_det_keyframe |-> (o[i] + 1) \in keys]] :
               o \in {l \in ListOrders(n) :
                         l = [i \in 1..n |-> i - 1] \/ keys = 1..n}} :
           keys \in SUBSET (1..n)}

\* The annotation store: annotations sit on keyframes only.
CocoStores(fr) ==
    {c \in [0..(Len(fr) - 1) -> AnnLists] :
        \A i \in 1..Len(fr) : ~fr[i].is_det_keyframe => c[fr[i].id] = <<>>}

\* Mask logits the predictor can return for one object: nowhere positive;
\* positive on the second pixel; positive on the first and the last pixel.
LogitSamples ==
    << [p \in Pixels |-> 0 - 1],
       [p \in Pixels |-> IF p = 2 THEN 1 ELSE 0 - 1],
       [p \in Pixels |-> IF p \in {1, Width} THEN 2 ELSE 0] >>

\* The logits of n objects: the samples taken round-robin from an offset.
LogitChoices(n) ==
    {[i \in 1..n |-> LogitSamples[((i + s) % Len(LogitSamples)) + 1]] : s \in 0..1}

\* torch.sigmoid, in percent, on the logit values of the samples.
Sigmoid(x) ==
    CASE x = 0 - 2 -> 12 [] x = 0 - 1 -> 27 [] x = 0 -> 50 [] x = 1 -> 73 [] x = 2 -> 88

EmptyMap == [f \in {} |-> <<>>]

\* ------------------------------------------------------------------- state
VARIABLES
    frames, COCO_INFO, prompt_type, clip_length, variable_cats,
    pc, err,
    OBJ_COUNT, PROMPT_INFO, video_segments, previous_frame_mask_prompt,
    gen_start,
    scan, existing_cats, previous_start_idx, previous_prompt_info,
    prompt_and_ranges, next_clip,
    clip_prompts, clip_range,
    live, inference_state, seeded, out_frame_idx, clip_segments,
    reverse_out, forward_out,
    considered, emitted, written, issued,
    coco_annotations, save_idx

inputs == <<frames, COCO_INFO, prompt_type, clip_length, variable_cats>>
globals == <<OBJ_COUNT, PROMPT_INFO, video_segments, previous_frame_mask_prompt>>
fixedPlanner == <<gen_start>>
catPlanner == <<scan, existing_cats, previous_start_idx, previous_prompt_info,
                prompt_and_ranges, next_clip>>
clipVars == <<clip_prompts, clip_range>>
modelVars == <<live, inference_state, seeded, out_frame_idx, clip_segments,
               reverse_out, forward_out>>
history == <<considered, emitted, written, issued>>
saveVars == <<coco_annotations, save_idx>>

vars == <<inputs, pc, err, globals, fixedPlanner, catPlanner, clipVars,
          modelVars, history, saveVars>>

N == Len(frames)

NoRange == [start_idx |-> None, end_idx |-> None]
NoState == [num_frames |-> 0, obj_ids |-> <<>>, calls |-> <<>>]

Init ==
    /\ \E n \in 1..MaxFrames : frames \in FrameLists(n)
    /\ COCO_INFO \in CocoStores(frames)
    /\ prompt_type \in PromptTypes
    /\ variable_cats \in BOOLEAN
    /\ clip_length \in IF variable_cats THEN {None} ELSE {None} \cup (1..(MaxFrames - 1))
    /\ pc = "start"
    /\ err = ""
    /\ OBJ_COUNT = 0
    /\ PROMPT_INFO = <<>>
    /\ video_segments = EmptyMap
    /\ previous_frame_mask_prompt = NonePrompt
    /\ gen_start = 0
    /\ scan = 1
    /\ existing_cats = {}
    /\ previous_start_idx = None
    /\ previous_prompt_info = NonePrompt
    /\ prompt_and_ranges = <<>>
    /\ next_clip = 1
    /\ clip_prompts = <<>>
    /\ clip_range = NoRange
    /\ live = 0
    /\ inference_state = NoState
    /\ seeded = 1
    /\ out_frame_idx = None
    /\ clip_segments = EmptyMap
    /\ reverse_out = EmptyMap
    /\ forward_out = EmptyMap
    /\ considered = <<>>
    /\ emitted = <<>>
    /\ written = <<>>
    /\ issued = <<>>
    /\ coco_annotations = <<>>
    /\ save_idx = 0


\* ------------------------------------------------------------ clip planner
ClipRange(start_idx, end_idx) == [start_idx |-> start_idx, end_idx |-> end_idx]

PromptInfo(prompt_objs, frame_idx, kind) ==
    [prompt_objs |-> prompt_objs, frame_idx |-> frame_idx, prompt_type |-> kind]

Raise(name) == pc' = "error" /\ err' = name

\* find_prompt_frame: position in the frame list of the first keyframe whose
\* ordinal lies in the range and that has an annotation; 0 for None.
FindPromptFrame(fr, coco, range) ==
    LET ok == {i \in 1..Len(fr) :
                  /\ fr[i].is_det_keyframe
                  /\ ~(\/ fr[i].order_in_video < range.start_idx
                       \/ fr[i].order_in_video > range.end_idx)
                  /\ coco[fr[i].id] # <<>>}
    IN  IF ok = {} THEN 0 ELSE Min(ok)

\* The clip length in force: the whole video when none is given.
ClipLength == IF clip_length = None THEN N ELSE clip_length

\* ClipEnd without the clamp to the last frame.
ClipEndUnclamped(start_idx, len, n) == start_idx + len - 1

\* end_idx of the clip that starts at start_idx.
ClipEnd(start_idx, len, n) == MinOf(start_idx + len - 1, n - 1)

\* The categories annotated on a frame.
get_num_categories(coco, frame) ==
    {coco[frame.id][k].category_id : k \in 1..Len(coco[frame.id])}

\* process_singel_video, entry: the counter reset and the choice of planner.
Start ==
    /\ pc = "start"
    /\ OBJ_COUNT' = 0
    /\ video_segments' = EmptyMap
    /\ previous_frame_mask_prompt' = NonePrompt
    /\ pc' = IF variable_cats THEN "plan" ELSE "gen"
    /\ UNCHANGED <<inputs, err, PROMPT_INFO, fixedPlanner, catPlanner, clipVars,
                   modelVars, history, saveVars>>

\* get_clip_prompts, one iteration that finds no prompt frame: warn and go on.
GenSkip ==
    /\ pc = "gen"
    /\ gen_start < N
    /\ LET range == ClipRange(gen_start, ClipEnd(gen_start, ClipLength, N))
       IN  /\ FindPromptFrame(frames, COCO_INFO, range) = 0
           /\ considered' = Append(considered, range)
    /\ gen_start' = gen_start + ClipLength
    /\ UNCHANGED <<inputs, pc, err, globals, catPlanner, clipVars, modelVars,
                   emitted, written, issued, saveVars>>

\* get_clip_prompts, one iteration that yields a prompt batch and its range.
GenYield ==
    /\ pc = "gen"
    /\ gen_start < N
    /\ LET range == ClipRange(gen_start, ClipEnd(gen_start, ClipLength, N))
           p == FindPromptFrame(frames, COCO_INFO, range)
           r == GetEachObj(COCO_INFO[frames[p].id], OBJ_COUNT)
       IN  /\ p # 0
           /\ OBJ_COUNT' = r.count
           /\ clip_prompts' =
                  <<PromptInfo(r.objs, frames[p].order_in_video, prompt_type)>>
           /\ clip_range' = range
           /\ considered' = Append(considered, range)
           /\ emitted' = Append(emitted, range)
           /\ issued' = issued \o IssueLog(COCO_INFO[frames[p].id], r.objs)
    /\ gen_start' = gen_start + ClipLength
    /\ pc' = "clip"
    /\ UNCHANGED <<inputs, err, PROMPT_INFO, video_segments,
                   previous_frame_mask_prompt, catPlanner, modelVars, written,
                   saveVars>>

\* get_clip_prompts runs out of ranges: the clip loop of the video ends.
GenExhausted ==
    /\ pc = "gen"
    /\ gen_start >= N
    /\ pc' = "save"
    /\ UNCHANGED <<inputs, err, globals, fixedPlanner, catPlanner, clipVars,
                   modelVars, history, saveVars>>

\* get_prompts_from_categories, one frame that is passed over: not a keyframe,
\* or its categories are all in the running set.
CatScanSkip ==
    /\ pc = "plan"
    /\ scan <= N
    /\ \/ ~frames[scan].is_det_keyframe
       \/ get_num_categories(COCO_INFO, frames[scan]) \subseteq existing_cats
    /\ scan' = scan + 1
    /\ UNCHANGED <<inputs, pc, err, globals, fixedPlanner, existing_cats,
                   previous_start_idx, previous_prompt_info, prompt_and_ranges,
                   next_clip, clipVars, modelVars, history, saveVars>>

\* get_prompts_from_categories, one keyframe that introduces a category.  The
\* first one opens a clip; a later one calls list.append with two arguments,
\* which raises TypeError.
CatScanNew ==
    /\ pc = "plan"
    /\ scan <= N
    /\ frames[scan].is_det_keyframe
    /\ ~(get_num_categories(COCO_INFO, frames[scan]) \subseteq existing_cats)
    /\ existing_cats' =
           existing_cats \cup get_num_categories(COCO_INFO, frames[scan])
    /\ LET r == GetEachObj(COCO_INFO[frames[scan].id], OBJ_COUNT)
           info == PromptInfo(r.objs, frames[scan].order_in_video, "points")
       IN  /\ OBJ_COUNT' = r.count
           /\ issued' = issued \o IssueLog(COCO_INFO[frames[scan].id], r.objs)
           /\ IF previous_prompt_info = NonePrompt
              THEN /\ previous_prompt_info' = info
                   /\ previous_start_idx' = frames[scan].order_in_video
                   /\ scan' = scan + 1
                   /\ UNCHANGED <<pc, err>>
              ELSE /\ Raise("TypeError")
                   /\ UNCHANGED <<previous_prompt_info, previous_start_idx, scan>>
    /\ UNCHANGED <<inputs, PROMPT_INFO, video_segments,
                   previous_frame_mask_prompt, fixedPlanner, prompt_and_ranges,
                   next_clip, clipVars, modelVars, considered, emitted, written,
                   saveVars>>

\* get_prompts_from_categories, after the loop: the open clip is closed at the
\* last frame unless it starts there.
CatFinish ==
    /\ pc = "plan"
    /\ scan > N
    /\ prompt_and_ranges' =
           IF previous_start_idx # N - 1
           THEN Append(prompt_and_ranges,
                       [clip_prompts |-> <<previous_prompt_info>>,
                        clip_range |-> ClipRange(previous_start_idx, N - 1)])
           ELSE prompt_and_ranges
    /\ pc' = "next"
    /\ UNCHANGED <<inputs, err, globals, fixedPlanner, scan, existing_cats,
                   previous_start_idx, previous_prompt_info, next_clip, clipVars,
                   modelVars, history, saveVars>>

\* process_singel_video takes the next planned clip of category-growth mode.
NextPlanned ==
    /\ pc = "next"
    /\ next_clip <= Len(prompt_and_ranges)
    /\ clip_prompts' = prompt_and_ranges[next_clip].clip_prompts
    /\ clip_range' = prompt_and_ranges[next_clip].clip_range
    /\ next_clip' = next_clip + 1
    /\ emitted' = Append(emitted, prompt_and_ranges[next_clip].clip_range)
    /\ pc' = "clip"
    /\ UNCHANGED <<inputs, err, globals, fixedPlanner, scan, existing_cats,
                   previous_start_idx, previous_prompt_info, prompt_and_ranges,
                   modelVars, considered, written, issued, saveVars>>

\* The planned clips are used up: the clip loop of the video ends.
PlannedExhausted ==
    /\ pc = "next"
    /\ next_clip > Len(prompt_and_ranges)
    /\ pc' = "save"
    /\ UNCHANGED <<inputs, err, globals, fixedPlanner, catPlanner, clipVars,
                   modelVars, history, saveVars>>


\* ---------------------------------------------------------- clip processor
\* dict assignment d[key] = value.
Put(d, key, value) ==
    [k \in DOMAIN d \cup {key} |-> IF k = key THEN value ELSE d[k]]

\* dict.update: every entry of other written over d.
Update(d, other) ==
    [k \in DOMAIN d \cup DOMAIN other |-> IF k \in DOMAIN other THEN other[k] ELSE d[k]]

\* Number of frames of the slice frames[start_idx : end_idx + 1].
StagedCount(range, n) ==
    MinOf(range.end_idx + 1, n)
        - (IF range.start_idx = None THEN 0 ELSE range.start_idx)

\* The model operation add_prompt dispatches a prompt kind to.
SeedOp(kind) ==
    CASE kind = "points" -> "add_new_points_or_box:points"
      [] kind = "bbox" -> "add_new_points_or_box:box"
      [] kind = "mask" -> "add_new_mask"

\* The object ids of a model state after the ids of objs are added.
RECURSIVE AddObjIds(_, _)
AddObjIds(ids, objs) ==
    IF objs = <<>> THEN ids
    ELSE AddObjIds(IF \E i \in 1..Len(ids) : ids[i] = Head(objs).obj_id
                   THEN ids ELSE Append(ids, Head(objs).obj_id),
                   Tail(objs))

\* The frame propagation starts from: the first frame that carries a prompt.
Anchor(state) == Min({state.calls[i].frame_idx : i \in 1..Len(state.calls)})

\* FrameKey without the offset back to video ordinals.
FrameKeyRelative(idx, start_idx) == idx

\* Key of a propagated frame in the returned map.
FrameKey(idx, start_idx) == idx + start_idx

\* The per-object entries predict_on_video builds from one propagated frame.
ObjMap(out_obj_ids, out_mask_logits) ==
    [i \in 1..Len(out_obj_ids) |->
        [obj_id |-> out_obj_ids[i],
         mask |-> {p \in Pixels : out_mask_logits[i][p] > 0},
         score |-> Sigmoid(Max({out_mask_logits[i][p] : p \in Pixels}))]]

\* WriteForward that keeps an entry the reverse pass has written.
WriteForwardKeepsReverse(segments, key, value) ==
    IF key \in DOMAIN segments THEN segments ELSE Put(segments, key, value)

\* The write of a reverse-pass frame, and of a forward-pass frame.
WriteReverse(segments, key, value) == Put(segments, key, value)

WriteForward(segments, key, value) == Put(segments, key, value)

\* process_singel_video, head of the loop body: the carried prompt is appended
\* in category-growth mode and the batch goes to the prompt log.
BeginClip ==
    /\ pc = "clip"
    /\ LET batch == IF variable_cats /\ previous_frame_mask_prompt # NonePrompt
                    THEN Append(clip_prompts, previous_frame_mask_prompt)
                    ELSE clip_prompts
       IN  /\ clip_prompts' = batch
           /\ PROMPT_INFO' = PROMPT_INFO \o batch
    /\ pc' = "stage"
    /\ UNCHANGED <<inputs, err, OBJ_COUNT, video_segments,
                   previous_frame_mask_prompt, fixedPlanner, catPlanner,
                   clip_range, modelVars, history, saveVars>>

\* process_video_clip: the clip is staged, the predictor built and its state
\* initialised.
InitState ==
    /\ pc = "stage"
    /\ live' = live + 1
    /\ inference_state' =
           [num_frames |-> StagedCount(clip_range, N), obj_ids |-> <<>>,
            calls |-> <<>>]
    /\ seeded' = 1
    /\ pc' = "seed"
    /\ UNCHANGED <<inputs, err, globals, fixedPlanner, catPlanner, clipVars,
                   out_frame_idx, clip_segments, reverse_out, forward_out,
                   history, saveVars>>

\* process_video_clip, one iteration of the prompt loop, add_prompt included.
\* Subscripting a None prompt raises TypeError; add_prompt returns names that
\* are unbound when the batch has no object.
AddPrompt ==
    /\ pc = "seed"
    /\ seeded <= Len(clip_prompts)
    /\ LET info == clip_prompts[seeded]
           idx == info.frame_idx - clip_range.start_idx
           state == [inference_state EXCEPT
                        !.obj_ids = AddObjIds(@, info.prompt_objs),
                        !.calls = @ \o [i \in 1..Len(info.prompt_objs) |->
                                          [op |-> SeedOp(info.prompt_type),
                                           frame_idx |-> idx,
                                           obj_id |-> info.prompt_objs[i].obj_id]]]
       IN  IF info = NonePrompt
           THEN /\ Raise("TypeError")
                /\ UNCHANGED <<inference_state, seeded, out_frame_idx>>
           ELSE IF info.prompt_objs = <<>>
           THEN /\ Raise("UnboundLocalError")
                /\ UNCHANGED <<inference_state, seeded, out_frame_idx>>
           ELSE /\ inference_state' = state
                /\ seeded' = seeded + 1
                /\ err' = err
                /\ IF seeded = Len(clip_prompts)
                   THEN pc' = "reverse" /\ out_frame_idx' = Anchor(state)
                   ELSE pc' = pc /\ out_frame_idx' = out_frame_idx
    /\ UNCHANGED <<inputs, globals, fixedPlanner, catPlanner, clipVars, live,
                   clip_segments, reverse_out, forward_out, history, saveVars>>

\* predict_on_video, one frame of the reverse pass: from the anchor down to
\* the first frame of the clip.
PropagateReverse ==
    /\ pc = "reverse"
    /\ \E logits \in LogitChoices(Len(inference_state.obj_ids)) :
          LET value == ObjMap(inference_state.obj_ids, logits)
          IN  /\ clip_segments' =
                     WriteReverse(clip_segments,
                                  FrameKey(out_frame_idx, clip_range.start_idx),
                                  value)
              /\ reverse_out' = Put(reverse_out, out_frame_idx, value)
    /\ IF out_frame_idx = 0
       THEN pc' = "forward" /\ out_frame_idx' = Anchor(inference_state)
       ELSE pc' = pc /\ out_frame_idx' = out_frame_idx - 1
    /\ UNCHANGED <<inputs, err, globals, fixedPlanner, catPlanner, clipVars,
                   live, inference_state, seeded, forward_out, history, saveVars>>

\* predict_on_video, one frame of the forward pass: from the anchor up to the
\* last frame of the clip.
PropagateForward ==
    /\ pc = "forward"
    /\ \E logits \in LogitChoices(Len(inference_state.obj_ids)) :
          LET value == ObjMap(inference_state.obj_ids, logits)
          IN  /\ clip_segments' =
                     WriteForward(clip_segments,
                                  FrameKey(out_frame_idx, clip_range.start_idx),
                                  value)
              /\ forward_out' = Put(forward_out, out_frame_idx, value)
    /\ IF out_frame_idx = inference_state.num_frames - 1
       THEN pc' = "release" /\ out_frame_idx' = None
       ELSE pc' = pc /\ out_frame_idx' = out_frame_idx + 1
    /\ UNCHANGED <<inputs, err, globals, fixedPlanner, catPlanner, clipVars,
                   live, inference_state, seeded, reverse_out, history, saveVars>>

\* A call into the predictor raises (the accelerator runs out of memory): the
\* exception leaves process_video_clip past its release statements.
ModelFailure ==
    /\ pc \in {"seed", "reverse", "forward"}
    /\ Raise("RuntimeError")
    /\ UNCHANGED <<inputs, globals, fixedPlanner, catPlanner, clipVars,
                   modelVars, history, saveVars>>

\* process_video_clip, tail: del predictor and torch.cuda.empty_cache().
ReleaseModel ==
    /\ pc = "release"
    /\ live' = live - 1
    /\ inference_state' = NoState
    /\ pc' = "merge"
    /\ UNCHANGED <<inputs, err, globals, fixedPlanner, catPlanner, clipVars,
                   seeded, out_frame_idx, clip_segments, reverse_out,
                   forward_out, history, saveVars>>

\* process_singel_video, rest of the loop body: the clip's frames are merged
\* into the video's and, in category-growth mode, the prompt to carry is built
\* from the clip's last frame.
MergeClip ==
    /\ pc = "merge"
    /\ video_segments' = Update(video_segments, clip_segments)
    /\ written' = Append(written, DOMAIN clip_segments)
    /\ IF variable_cats
       THEN IF clip_range.end_idx \in DOMAIN video_segments'
            THEN /\ previous_frame_mask_prompt' =
                        PromptInfo(GetObjFromMasks(video_segments'[clip_range.end_idx]),
                                   clip_range.end_idx, prompt_type)
                 /\ pc' = "next"
                 /\ err' = err
            ELSE /\ Raise("KeyError")
                 /\ UNCHANGED previous_frame_mask_prompt
       ELSE /\ pc' = "gen"
            /\ UNCHANGED <<err, previous_frame_mask_prompt>>
    /\ clip_segments' = EmptyMap
    /\ reverse_out' = EmptyMap
    /\ forward_out' = EmptyMap
    /\ UNCHANGED <<inputs, OBJ_COUNT, PROMPT_INFO, fixedPlanner, catPlanner,
                   clipVars, live, inference_state, seeded, out_frame_idx,
                   considered, emitted, issued, saveVars>>


\* --------------------------------------------------------- mask reassembler
\* sort_dicts_by_field on order_in_video (the ordinals of a video differ).
SortByOrder(fr) ==
    [k \in 1..Len(fr) |->
        fr[CHOOSE i \in 1..Len(fr) :
              Cardinality({j \in 1..Len(fr) :
                  fr[j].order_in_video < fr[i].order_in_video}) = k - 1]]

\* The merged_mask dict after the entries of a frame's object map are folded
\* in: one entry per remainder, in order of first appearance.
RECURSIVE MergeMasks(_, _)
MergeMasks(merged, seg) ==
    IF seg = <<>> THEN merged
    ELSE LET remainder == DecodeObjId(Head(seg).obj_id)
             m_mask == Head(seg).mask
         IN  MergeMasks(
                 IF \E i \in 1..Len(merged) : merged[i].category_id = remainder
                 THEN [i \in 1..Len(merged) |->
                          IF merged[i].category_id = remainder
                          THEN [merged[i] EXCEPT !.mask = @ \cup m_mask]
                          ELSE merged[i]]
                 ELSE Append(merged, [category_id |-> remainder, mask |-> m_mask]),
                 Tail(seg))

\* The value of the variable score when the record of a category is built.
RecordScore(seg, category_id) == seg[Len(seg)].score

\* The annotation records of one keyframe.
FrameRecords(frame, seg) ==
    LET merged == MergeMasks(<<>>, seg)
        kept == SelectSeq(merged, LAMBDA e : e.mask # {})
    IN  [i \in 1..Len(kept) |->
            [image_id |-> frame.id,
             category_id |-> kept[i].category_id,
             segmentation |-> RleEncode(kept[i].mask),
             bbox |-> mask_to_bbox(kept[i].mask),
             iscrowd |-> 0,
             score |-> RecordScore(seg, kept[i].category_id)]]

\* save_as_coco_format, one frame that is not a keyframe.
SaveSkip ==
    /\ pc = "save"
    /\ save_idx < N
    /\ ~SortByOrder(frames)[save_idx + 1].is_det_keyframe
    /\ save_idx' = save_idx + 1
    /\ UNCHANGED <<inputs, pc, err, globals, fixedPlanner, catPlanner, clipVars,
                   modelVars, history, coco_annotations>>

\* save_as_coco_format, one keyframe: its records are appended; a keyframe
\* whose ordinal is no key of the video's segments raises KeyError.
SaveFrame ==
    /\ pc = "save"
    /\ save_idx < N
    /\ LET frame == SortByOrder(frames)[save_idx + 1]
       IN  /\ frame.is_det_keyframe
           /\ IF frame.order_in_video \in DOMAIN video_segments
              THEN /\ coco_annotations' =
                          coco_annotations
                              \o FrameRecords(frame, video_segments[frame.order_in_video])
                   /\ save_idx' = save_idx + 1
                   /\ UNCHANGED <<pc, err>>
              ELSE /\ Raise("KeyError")
                   /\ UNCHANGED <<coco_annotations, save_idx>>
    /\ UNCHANGED <<inputs, globals, fixedPlanner, catPlanner, clipVars,
                   modelVars, history>>

\* save_as_coco_format, after the loop: the two output files are written.
SaveFinish ==
    /\ pc = "save"
    /\ save_idx = N
    /\ pc' = "saved"
    /\ UNCHANGED <<inputs, err, globals, fixedPlanner, catPlanner, clipVars,
                   modelVars, history, saveVars>>

\* ------------------------------------------------------------ specification
Next ==
    \/ Start
    \/ GenSkip
    \/ GenYield
    \/ GenExhausted
    \/ CatScanSkip
    \/ CatScanNew
    \/ CatFinish
    \/ NextPlanned
    \/ PlannedExhausted
    \/ BeginClip
    \/ InitState
    \/ AddPrompt
    \/ PropagateReverse
    \/ PropagateForward
    \/ ModelFailure
    \/ ReleaseModel
    \/ MergeClip
    \/ SaveSkip
    \/ SaveFrame
    \/ SaveFinish

Spec == Init /\ [][Next]_vars


\* ------------------------------------------------------------------ claims
\* The ranges tile [0, n-1]: the first starts at 0, each next one starts right
\* after the previous end, the last ends at n-1.
Tiles(ranges, n) ==
    /\ ranges # <<>>
    /\ ranges[1].start_idx = 0
    /\ ranges[Len(ranges)].end_idx = n - 1
    /\ \A i \in 1..Len(ranges) : ranges[i].start_idx <= ranges[i].end_idx
    /\ \A i \in 1..(Len(ranges) - 1) :
          ranges[i + 1].start_idx = ranges[i].end_idx + 1

\* Some keyframe with an annotation has its ordinal in the range.
HasAnnotatedKeyframe(range) ==
    \E i \in 1..N :
        /\ frames[i].is_det_keyframe
        /\ frames[i].order_in_video \in range.start_idx..range.end_idx
        /\ COCO_INFO[frames[i].id] # <<>>

\* C1, as stated: in fixed-length mode, once get_clip_prompts is exhausted, the
\* clip ranges it emitted tile [0, N-1] exactly, whatever the placement of
\* keyframes and annotations.
C1_EmittedRangesTile ==
    (~variable_cats /\ pc \in {"save", "saved"}) => Tiles(emitted, N)

\* C1, amended: in fixed-length mode the ranges get_clip_prompts computes tile
\* [0, N-1] exactly (contiguous from 0 while it runs, ending at N-1 once it is
\* exhausted), and the emitted ranges are, in order, exactly the computed ranges
\* that hold a keyframe with an annotation: they never overlap, and they leave
\* a gap for every range without such a keyframe.
C1_ComputedRangesTile ==
    ~variable_cats =>
        /\ considered # <<>> => Tiles(considered, considered[Len(considered)].end_idx + 1)
        /\ \A i \in 1..Len(considered) : considered[i].end_idx <= N - 1
        /\ pc \in {"save", "saved"} => Tiles(considered, N)
        /\ emitted = SelectSeq(considered, HasAnnotatedKeyframe)
        /\ \A i, j \in 1..Len(emitted) :
              i < j => emitted[i].end_idx < emitted[j].start_idx

\* C1 witness: the planner is exhausted after emitting one range and skipping
\* another, with a last range shorter than the clip length.
C1_Witness ==
    /\ ~variable_cats
    /\ pc = "saved"
    /\ emitted # <<>>
    /\ Len(emitted) < Len(considered)
    /\ clip_length # None
    /\ N % clip_length # 0

\* The prompt objects of the video: those of every logged prompt batch and
\* those of the prompt built to be carried into the next clip.
RECURSIVE BatchObjs(_)
BatchObjs(prompts) ==
    IF prompts = <<>> THEN <<>>
    ELSE Head(prompts).prompt_objs \o BatchObjs(Tail(prompts))

VideoPromptObjs ==
    BatchObjs(PROMPT_INFO)
        \o (IF \E i \in 1..Len(PROMPT_INFO) : PROMPT_INFO[i] = previous_frame_mask_prompt
            THEN <<>> ELSE previous_frame_mask_prompt.prompt_objs)

\* C2, as stated: no two prompt objects of one video, whether from get_each_obj
\* or from get_obj_from_masks, have the same obj_id.
C2_AllPromptIdsDistinct ==
    \A i, j \in 1..Len(VideoPromptObjs) :
        i # j => VideoPromptObjs[i].obj_id # VideoPromptObjs[j].obj_id

\* C2, amended: the ids get_each_obj assigns after the counter reset are
\* pairwise distinct, whatever the number of calls; get_obj_from_masks assigns
\* no id of its own: every object it derives carries the id of the propagated
\* object it was cut from, an id get_each_obj assigned earlier.
C2_IssuedIdsDistinct ==
    /\ \A i, j \in 1..Len(issued) : i # j => issued[i].obj_id # issued[j].obj_id
    /\ \A k \in 1..Len(previous_frame_mask_prompt.prompt_objs) :
          \E i \in 1..Len(issued) :
              issued[i].obj_id = previous_frame_mask_prompt.prompt_objs[k].obj_id

\* C2 witness: three ids were assigned, two of them to instances of one
\* annotation, and a carried prompt was derived from a propagated frame.
C2_Witness ==
    /\ Len(issued) >= 3
    /\ previous_frame_mask_prompt.prompt_objs # <<>>

\* C3: every id get_each_obj assigns decodes to the category of the annotation
\* it was assigned for, at every value of the counter; every id in the video's
\* segments and in a carried prompt is such an id, and every annotation record
\* carries the category of an instance of its frame.
C3_DecodeRoundTrip ==
    /\ \A i \in 1..Len(issued) :
          /\ issued[i].category_id \in Cats
          /\ DecodeObjId(issued[i].obj_id) = issued[i].category_id
    /\ \A f \in DOMAIN video_segments : \A k \in 1..Len(video_segments[f]) :
          \E i \in 1..Len(issued) : issued[i].obj_id = video_segments[f][k].obj_id
    /\ \A k \in 1..Len(previous_frame_mask_prompt.prompt_objs) :
          \E i \in 1..Len(issued) :
              issued[i].obj_id = previous_frame_mask_prompt.prompt_objs[k].obj_id
    /\ \A r \in 1..Len(coco_annotations) :
          \E f \in DOMAIN video_segments : \E k \in 1..Len(video_segments[f]) :
              \E i \in 1..Len(issued) :
                  /\ SortByOrder(frames)[f + 1].id = coco_annotations[r].image_id
                  /\ issued[i].obj_id = video_segments[f][k].obj_id
                  /\ issued[i].category_id = coco_annotations[r].category_id

\* C3 witness: ids were assigned at counter values above zero for both
\* categories and a record was written for an id assigned at a counter value
\* above zero.
C3_Witness ==
    /\ \E i, j \in 1..Len(issued) :
          /\ issued[i].obj_id > NumCat /\ issued[j].obj_id > NumCat
          /\ issued[i].category_id # issued[j].category_id
    /\ \E r \in 1..Len(coco_annotations) :
          coco_annotations[r].category_id = NumCat - 1

\* C4: when predict_on_video returns, the keys of its map are the relative
\* indices of the two passes plus start_idx; the entry of a frame the forward
\* pass produced is the forward pass's object map, also when the reverse pass
\* produced the frame too; the entry of a frame only the reverse pass produced
\* is the reverse pass's object map.
C4_ForwardOverwritesReverse ==
    pc \in {"release", "merge"} =>
        /\ DOMAIN clip_segments =
               {i + clip_range.start_idx : i \in DOMAIN reverse_out \cup DOMAIN forward_out}
        /\ \A i \in DOMAIN forward_out :
              clip_segments[i + clip_range.start_idx] = forward_out[i]
        /\ \A i \in DOMAIN reverse_out \ DOMAIN forward_out :
              clip_segments[i + clip_range.start_idx] = reverse_out[i]

\* C4 witness: predict_on_video has returned for a clip whose anchor both
\* passes produced with different masks and scores, and that has a frame only
\* the reverse pass produced.
C4_Witness ==
    /\ pc = "merge"
    /\ \E i \in DOMAIN reverse_out \cap DOMAIN forward_out :
          /\ reverse_out[i] # forward_out[i]
          /\ clip_segments[i + clip_range.start_idx] = forward_out[i]
    /\ DOMAIN reverse_out \ DOMAIN forward_out # {}


\* The union of the masks of a sequence of object-map entries.
RECURSIVE MaskUnion(_)
MaskUnion(seg) == IF seg = <<>> THEN {} ELSE Head(seg).mask \cup MaskUnion(Tail(seg))

\* C5, as stated: for every keyframe written out and every category, the
\* records of that frame and category are none when the union of the masks of
\* the instances that decode to the category is empty, and otherwise exactly
\* one, whose mask is that union and whose score is the score of the last such
\* instance in the object map's order.
C5_ScoreOfLastInstanceOfCategory ==
    \A f \in DOMAIN video_segments : \A cat \in 0..NumCat :
        LET frame == SortByOrder(frames)[f + 1]
            inst == SelectSeq(video_segments[f],
                              LAMBDA e : DecodeObjId(e.obj_id) = cat)
            recs == {r \in 1..Len(coco_annotations) :
                        /\ coco_annotations[r].image_id = frame.id
                        /\ coco_annotations[r].category_id = cat}
        IN  (pc \in {"save", "saved"} /\ f < save_idx /\ frame.is_det_keyframe) =>
                IF MaskUnion(inst) = {} THEN recs = {}
                ELSE /\ Cardinality(recs) = 1
                     /\ \A r \in recs :
                           /\ RleDecode(coco_annotations[r].segmentation) = MaskUnion(inst)
                           /\ coco_annotations[r].score = inst[Len(inst)].score

\* C6, as stated: in fixed-length mode a computed range without an annotated
\* keyframe is never emitted, none of its frames gets an entry in the video's
\* segments, save_as_coco_format does not fail on any of its frames, and no
\* record is written for any of its frames.
C6_SkippedClipIsNotFatal ==
    ~variable_cats =>
        \A i \in 1..Len(considered) :
            LET range == considered[i]
                ordinals == range.start_idx..range.end_idx
            IN  ~HasAnnotatedKeyframe(range) =>
                    /\ \A j \in 1..Len(emitted) : emitted[j] # range
                    /\ ordinals \cap DOMAIN video_segments = {}
                    /\ ~(pc = "error" /\ err = "KeyError" /\ save_idx \in ordinals)
                    /\ \A r \in 1..Len(coco_annotations) : \A k \in 1..N :
                          frames[k].id = coco_annotations[r].image_id
                              => frames[k].order_in_video \notin ordinals

\* The ordinals of the keyframes, in list order from position k on, whose
\* annotated categories are not all in the running set seen.
RECURSIVE NewCategoryFrames(_, _)
NewCategoryFrames(k, seen) ==
    IF k > N THEN <<>>
    ELSE LET cats == get_num_categories(COCO_INFO, frames[k])
         IN  IF frames[k].is_det_keyframe /\ ~(cats \subseteq seen)
             THEN <<frames[k].order_in_video>> \o NewCategoryFrames(k + 1, seen \cup cats)
             ELSE NewCategoryFrames(k + 1, seen)

\* C7, as stated: with f_1 < ... < f_m (m >= 1) the keyframes that introduce a
\* category, get_prompts_from_categories returns m clips, clip i < m being
\* [f_i, f_(i+1)] and the last [f_m, N-1], each with one points prompt anchored
\* at f_i that holds every instance annotated on that frame.
C7_CategoryGrowthClips ==
    LET f == NewCategoryFrames(1, {})
    IN  (variable_cats /\ pc \notin {"start", "plan"} /\ f # <<>>) =>
            /\ Len(prompt_and_ranges) = Len(f)
            /\ \A i \in 1..Len(prompt_and_ranges) :
                  LET clip == prompt_and_ranges[i]
                      frame == SortByOrder(frames)[f[i] + 1]
                  IN  /\ clip.clip_range =
                             ClipRange(f[i], IF i < Len(f) THEN f[i + 1] ELSE N - 1)
                      /\ Len(clip.clip_prompts) = 1
                      /\ clip.clip_prompts[1].prompt_type = "points"
                      /\ clip.clip_prompts[1].frame_idx = f[i]
                      /\ Len(clip.clip_prompts[1].prompt_objs)
                             = Len(Instances(COCO_INFO[frame.id]))

RECURSIVE NonEmptyIds(_)
NonEmptyIds(seg) ==
    IF seg = <<>> THEN <<>>
    ELSE (IF Head(seg).mask = {} THEN <<>> ELSE <<Head(seg).obj_id>>)
         \o NonEmptyIds(Tail(seg))

RECURSIVE Dedup(_)
Dedup(ids) ==
    IF ids = <<>> THEN <<>>
    ELSE LET rest == Dedup(SelectSeq(Tail(ids), LAMBDA x : x # Head(ids)))
         IN  <<Head(ids)>> \o rest

\* C9, as stated: in category-growth mode the prompt built after a clip is of
\* kind mask whatever the run's prompt kind, is anchored at the clip's end_idx
\* and holds the instances of the clip's last frame, empty masks excluded, under
\* their original ids, and the next clip's batches are the planner's one plus
\* this one; in fixed-length mode no prompt is carried.
C9_CarriedPromptIsMask ==
    /\ (variable_cats /\ previous_frame_mask_prompt # NonePrompt) =>
          /\ previous_frame_mask_prompt.prompt_type = "mask"
          /\ previous_frame_mask_prompt.frame_idx = clip_range.end_idx
          /\ Dedup([k \in 1..Len(previous_frame_mask_prompt.prompt_objs) |->
                       previous_frame_mask_prompt.prompt_objs[k].obj_id])
                 = NonEmptyIds(video_segments[clip_range.end_idx])
    /\ (variable_cats /\ written # <<>> /\ pc \in {"stage", "seed", "reverse", "forward"}) =>
          /\ Len(clip_prompts) = 2
          /\ clip_prompts[2] = previous_frame_mask_prompt
    /\ ~variable_cats =>
          /\ previous_frame_mask_prompt = NonePrompt
          /\ Len(clip_prompts) <= 1

\* C10, as stated: at most one model state is live, and none is live once
\* control has left process_video_clip, whether by return or by an exception.
C10_ModelStateReleased ==
    /\ live <= 1
    /\ pc \notin {"seed", "reverse", "forward", "release"} => live = 0


\* The ordinals of the keyframes of a range that have an annotation.
AnnotatedKeyframeOrdinals(range) ==
    {frames[i].order_in_video : i \in
        {k \in 1..N :
            /\ frames[k].is_det_keyframe
            /\ frames[k].order_in_video \in range.start_idx..range.end_idx
            /\ COCO_INFO[frames[k].id] # <<>>}}

\* C11, as stated: in fixed-length mode the prompt of every emitted clip is
\* anchored at the smallest ordinal among the keyframes of the clip's range
\* that have an annotation, for the frame list as process_all_videos passes it.
C11_PromptFrameIsSmallestOrdinal ==
    (~variable_cats /\ pc \in {"clip", "stage", "seed", "reverse", "forward",
                               "release", "merge"}) =>
        /\ Len(clip_prompts) = 1
        /\ clip_prompts[1].frame_idx \in AnnotatedKeyframeOrdinals(clip_range)
        /\ clip_prompts[1].frame_idx = Min(AnnotatedKeyframeOrdinals(clip_range))

====
